---- MODULE Spec2Model ----
(***************************************************************************)
(* A model of src/app.py (YouTubeLiveClipper): the clip extraction run     *)
(* extract_segments, with the shared file downloads/temp_<video_id>.mp4,   *)
(* the subtitle acquisition download_video_and_subtitles, and, each on     *)
(* its own, the time codec and the steps taken for one candidate.          *)
(*                                                                         *)
(* Strings that the code takes apart (timecodes, caption text) are         *)
(* tuples of one-character strings; None is the string "None".             *)
(***************************************************************************)
EXTENDS Integers, Sequences, FiniteSets, TLC

VARIABLES
    files,          \* the paths that exist under downloads/
    pc,             \* per run: where extract_segments stands
    gpt_response,   \* per run: the argument gpt_response
    video_url,      \* per run: the argument video_url
    subtitle_file,  \* per run: the argument subtitle_file
    idx,            \* per run: the number of candidates the loop has consumed
    results,        \* per run: the local list results
    accepted,       \* per run: the array positions the records of results came from
    ret,            \* per run: what extract_segments gave its caller
    log,            \* per run: the external effects of the run, in order
    acq,            \* the call of download_video_and_subtitles: its locals, and
                    \* the transcripts written so far
    fn,             \* a function applied on its own: its arguments and its result
    opened          \* per run: the transcript files the run has opened

vars == <<files, pc, gpt_response, video_url, subtitle_file, idx, results,
          accepted, ret, log, acq, fn, opened>>

-----------------------------------------------------------------------------
(* Bounds of the model. *)

\* The longest candidate array a model reply holds.
MaxSegments == 2

\* The most items a fetched transcript or a caption track holds.
MaxItems == 3

\* The largest hour count of a duration handed to format_time on its own.
MaxHour == 100

\* The requests to /extract that may overlap in time.
Runs == {"r1", "r2"}

None == "None"

-----------------------------------------------------------------------------
(* extract_video_id, lines 36-50.  A URL is its hostname, its path split   *)
(* at "/" (so "/watch" is <<"watch">> and "/live/" is <<"live", "">>) and  *)
(* the first value of its query parameter v (None when there is none).     *)

extract_video_id(url) ==
    IF url.hostname \in {"www.youtube.com", "youtube.com"}
    THEN IF url.path = <<"watch">>
         THEN url.v
         ELSE IF Len(url.path) >= 2 /\ url.path[1] \in {"live", "shorts"}
              THEN url.path[Len(url.path)]
              ELSE None
    ELSE IF url.hostname = "youtu.be"
         THEN IF Len(url.path) = 1 THEN url.path[1] ELSE ""
         ELSE None

\* a variant of lines 157 and 338 that tests for None alone
Falsy_OnlyNone(video_id) == video_id = None

\* Python's truth value of a video id: None and "" are false.
Falsy(video_id) == video_id \in {None, ""}

UrlWatch == [hostname |-> "www.youtube.com", path |-> <<"watch">>, v |-> "vid"]
UrlNotYouTube == [hostname |-> "example.com", path |-> <<"watch">>, v |-> "vid"]
\* /watch without the parameter v, and youtu.be with nothing after the slash
UrlNoVideoParam == [hostname |-> "www.youtube.com", path |-> <<"watch">>, v |-> None]
UrlShortEmpty == [hostname |-> "youtu.be", path |-> <<"">>, v |-> None]
\* the URLs that hold no video id
BadUrls == {UrlNotYouTube, UrlNoVideoParam, UrlShortEmpty}
Urls == {UrlWatch, UrlNotYouTube}

-----------------------------------------------------------------------------
(* Paths under downloads/. *)

\* lines 347-348: temp_<video_id>.mp4
TempPath(video_id) == <<"temp", video_id>>

\* lines 430-431: clip_<video_id>_<start>_<end>_subtitles.txt
SegmentSubtitlePath(video_id, start_time, end_time) ==
    <<"clip_subtitles", video_id, start_time, end_time>>

\* lines 436-437: clip_<video_id>_<start>_<end>.mp4
OutputPath(video_id, start_time, end_time) ==
    <<"clip", video_id, start_time, end_time>>

\* lines 217-218: <safe_title>_subtitles.txt
SubtitleOutput(safe_title) == <<"subtitles", safe_title>>

-----------------------------------------------------------------------------
(* The timecode step of extract_segments, lines 398-423. *)

Digits == {"0", "1", "2", "3", "4", "5", "6", "7", "8", "9"}

DigitValue(c) ==
    CASE c = "0" -> 0 [] c = "1" -> 1 [] c = "2" -> 2 [] c = "3" -> 3
      [] c = "4" -> 4 [] c = "5" -> 5 [] c = "6" -> 6 [] c = "7" -> 7
      [] c = "8" -> 8 [] c = "9" -> 9

\* int() of a string of digits.
RECURSIVE ToInt(_)
ToInt(s) ==
    IF s = <<>> THEN 0
    ELSE 10 * ToInt(SubSeq(s, 1, Len(s) - 1)) + DigitValue(s[Len(s)])

AllDigits(s) == \A k \in 1..Len(s) : s[k] \in Digits

\* str.strip(): surrounding whitespace removed.
RECURSIVE Strip(_)
Strip(s) ==
    IF s = <<>> THEN s
    ELSE IF s[1] = " " THEN Strip(Tail(s))
    ELSE IF s[Len(s)] = " " THEN Strip(SubSeq(s, 1, Len(s) - 1))
    ELSE s

\* line 404: the ways ^(\d{1,2}):?(\d{2}):?(\d{2})$ can lay out over s: h hour
\* digits, then c1 colons, two digits, c2 colons, two digits, and the end.
TimeLayouts(s) ==
    { lay \in [h : {1, 2}, c1 : {0, 1}, c2 : {0, 1}] :
        /\ Len(s) = lay.h + lay.c1 + 2 + lay.c2 + 2
        /\ AllDigits(SubSeq(s, 1, lay.h))
        /\ lay.c1 = 1 => s[lay.h + 1] = ":"
        /\ AllDigits(SubSeq(s, lay.h + lay.c1 + 1, lay.h + lay.c1 + 2))
        /\ lay.c2 = 1 => s[lay.h + lay.c1 + 3] = ":"
        /\ AllDigits(SubSeq(s, lay.h + lay.c1 + lay.c2 + 3,
                               lay.h + lay.c1 + lay.c2 + 4)) }

\* lines 406-409: time_pattern.match(s) found a match.
TimeMatches(s) == TimeLayouts(s) # {}

\* The three groups of the match (a string has at most one layout).
TimeGroups(s) ==
    LET lay == CHOOSE l \in TimeLayouts(s) : TRUE
    IN  <<SubSeq(s, 1, lay.h),
          SubSeq(s, lay.h + lay.c1 + 1, lay.h + lay.c1 + 2),
          SubSeq(s, lay.h + lay.c1 + lay.c2 + 3, lay.h + lay.c1 + lay.c2 + 4)>>

\* f"{n:02d}" for n >= 0.
RECURSIVE DecimalDigits(_)
DecimalDigits(n) ==
    LET d == <<"0", "1", "2", "3", "4", "5", "6", "7", "8", "9">>
    IN  IF n < 10 THEN <<d[n + 1]>>
        ELSE DecimalDigits(n \div 10) \o <<d[(n % 10) + 1]>>

TwoDigits(n) == IF n < 10 THEN <<"0">> \o DecimalDigits(n) ELSE DecimalDigits(n)

\* lines 414-415: f"{int(g1):02d}:{g2}:{g3}"
NormalizeTime(s) ==
    LET g == TimeGroups(s)
    IN  TwoDigits(ToInt(g[1])) \o <<":">> \o g[2] \o <<":">> \o g[3]

\* lines 418-420: time_to_seconds of an "H..:MM:SS" string.
RECURSIVE SplitColon(_)
SplitColon(s) ==
    IF \A k \in 1..Len(s) : s[k] # ":" THEN <<s>>
    ELSE LET p == CHOOSE k \in 1..Len(s) :
                     s[k] = ":" /\ \A j \in 1..(k - 1) : s[j] # ":"
         IN  <<SubSeq(s, 1, p - 1)>> \o SplitColon(SubSeq(s, p + 1, Len(s)))

time_to_seconds(time_str) ==
    LET p == SplitColon(time_str)
    IN  ToInt(p[1]) * 3600 + ToInt(p[2]) * 60 + ToInt(p[3])

-----------------------------------------------------------------------------
(* The model reply.  json.loads(gpt_response) raises JSONDecodeError       *)
(* (kind "invalid") or gives a JSON value: an array of candidates, or some *)
(* other value that is true ("object") or false ("null") in Python.        *)
(* A candidate is a JSON value too: an object with the set keys of names,  *)
(* or a number.  Its start and end are strings (str TRUE) or numbers.      *)
(* A score is a JSON number (in tenths), a string or null; a JSON integer  *)
(* may be too large for a double.  A reason is a string, a number or null. *)

\* line 380
required_fields ==
    {"start", "end", "impact", "uniqueness", "timeliness", "entertainment", "reason"}

Text(s) == [str |-> TRUE, s |-> s]
NotText == [str |-> FALSE, s |-> <<>>]

\* line 386
score_fields == {"impact", "uniqueness", "timeliness", "entertainment"}

\* the values of a score field: a JSON number of so many tenths, a string
\* that reads as that number, a string that reads as none, null, and an
\* integer literal beyond the range of a double
Number(tenths) == [json |-> "number", tenths |-> tenths]
NumericString(tenths) == [json |-> "numeric string", tenths |-> tenths]
WordString == [json |-> "word string", tenths |-> 0]
Null == [json |-> "null", tenths |-> 0]
HugeInteger == [json |-> "huge integer", tenths |-> 0]

\* line 388: float(segment[field]): the value in tenths, or what it raises
float(value) ==
    CASE value.json \in {"number", "numeric string"} ->
            [raises |-> "nothing", tenths |-> value.tenths]
      [] value.json = "word string" -> [raises |-> "ValueError", tenths |-> 0]
      [] value.json = "null" -> [raises |-> "TypeError", tenths |-> 0]
      [] value.json = "huge integer" -> [raises |-> "OverflowError", tenths |-> 0]

\* max and min of two numbers
Max(a, b) == IF a >= b THEN a ELSE b
Min(a, b) == IF a <= b THEN a ELSE b

\* round() of a positive number of tenths: to the nearest integer, a half
\* to the even one
round(tenths) ==
    LET whole == tenths \div 10
        rest == tenths % 10
    IN  IF rest < 5 THEN whole
        ELSE IF rest > 5 THEN whole + 1
        ELSE IF whole % 2 = 0 THEN whole ELSE whole + 1

\* lines 389-390: a score outside [1, 10] is brought to the nearer end
Clamp(tenths) ==
    IF ~(10 <= tenths /\ tenths <= 100) THEN Max(10, Min(100, tenths))
    ELSE tenths

\* lines 387-395: the normalized score of a value that float() converts or
\* refuses with ValueError or TypeError
NormalizedScore(value) ==
    IF float(value).raises \in {"ValueError", "TypeError"} THEN 5
    ELSE round(Clamp(float(value).tenths))

\* lines 387-395: no score raises past the handler of line 393
ScoresConvert(segment) ==
    \A field \in score_fields : float(segment[field]).raises # "OverflowError"

\* the values of a reason: a string, a number, null
ReasonText(s) == [json |-> "string", s |-> s, n |-> 0]
ReasonNumber(n) == [json |-> "number", s |-> <<>>, n |-> n]
ReasonNull == [json |-> "null", s |-> <<>>, n |-> 0]

\* line 472: str(segment['reason'])
str(value) ==
    CASE value.json = "string" -> value.s
      [] value.json = "number" -> DecimalDigits(value.n)
      [] value.json = "null" -> <<"N", "o", "n", "e">>

\* line 472: the sentence that stands in for a short reason
FallbackReason == <<"(the fallback sentence)">>

\* a variant of line 472 that measures the reason before trimming it
Reason_MeasuredUntrimmed(value) ==
    IF Len(str(value)) >= 10 THEN Strip(str(value)) ELSE FallbackReason

\* line 472
Reason(value) ==
    IF Len(Strip(str(value))) >= 10 THEN Strip(str(value)) ELSE FallbackReason

Five == Number(50)
LongReason == ReasonText(<<"a", " ", "l", "o", "n", "g", " ", "r", "e", "a", "s", "o", "n">>)

T000005 == <<"0", "0", ":", "0", "0", ":", "0", "5">>
T000010 == <<"0", "0", ":", "0", "0", ":", "1", "0">>

\* a well-formed candidate, 00:00:05 to 00:00:10
SegGood ==
    [json |-> "object", keys |-> required_fields \cup {"title"},
     start |-> Text(T000005), end |-> Text(T000010),
     impact |-> Five, uniqueness |-> Five, timeliness |-> Five,
     entertainment |-> Five, reason |-> LongReason]
\* start "0:00:05 " and end "000005": both parse, the end equals the start
SegZeroLength ==
    [json |-> "object", keys |-> required_fields,
     start |-> Text(<<"0", ":", "0", "0", ":", "0", "5", " ">>),
     end |-> Text(<<"0", "0", "0", "0", "0", "5">>),
     impact |-> Five, uniqueness |-> Five, timeliness |-> Five,
     entertainment |-> Five, reason |-> LongReason]
\* the end lies before the start
SegBackwards ==
    [json |-> "object", keys |-> required_fields \cup {"title"},
     start |-> Text(T000010), end |-> Text(T000005),
     impact |-> Five, uniqueness |-> Five, timeliness |-> Five,
     entertainment |-> Five, reason |-> LongReason]
\* no reason
SegNoReason ==
    [json |-> "object", keys |-> required_fields \ {"reason"},
     start |-> Text(T000005), end |-> Text(T000010),
     impact |-> Five, uniqueness |-> Five, timeliness |-> Five,
     entertainment |-> Five, reason |-> LongReason]
\* start "5:10" does not match the pattern
SegBadTime ==
    [json |-> "object", keys |-> required_fields,
     start |-> Text(<<"5", ":", "1", "0">>), end |-> Text(T000010),
     impact |-> Five, uniqueness |-> Five, timeliness |-> Five,
     entertainment |-> Five, reason |-> LongReason]
\* start is a JSON number
SegNumericStart ==
    [json |-> "object", keys |-> required_fields,
     start |-> NotText, end |-> Text(T000010),
     impact |-> Five, uniqueness |-> Five, timeliness |-> Five,
     entertainment |-> Five, reason |-> LongReason]
\* the array element is a JSON number, not an object
SegNotObject ==
    [json |-> "number", keys |-> {}, start |-> NotText, end |-> NotText,
     impact |-> Five, uniqueness |-> Five, timeliness |-> Five,
     entertainment |-> Five, reason |-> LongReason]

Candidates ==
    {SegGood, SegZeroLength, SegBackwards, SegNoReason, SegBadTime,
     SegNumericStart, SegNotObject}

RECURSIVE SeqsUpTo(_, _)
SeqsUpTo(S, n) ==
    IF n = 0 THEN {<<>>}
    ELSE LET shorter == SeqsUpTo(S, n - 1)
         IN  shorter \cup { Append(q, x) : q \in shorter, x \in S }

Array(items) == [kind |-> "array", items |-> items]

Replies ==
    { [kind |-> k, items |-> <<>>] : k \in {"invalid", "object", "null"} }
    \cup { Array(q) : q \in SeqsUpTo(Candidates, MaxSegments) }

\* a variant of line 333 that leaves out `not segments`
InvalidSegmentsData_NoEmptyTest(reply) == reply.kind # "array"

\* line 333: not segments or not isinstance(segments, list)
InvalidSegmentsData(reply) ==
    \/ reply.kind = "null"
    \/ reply.kind = "array" /\ reply.items = <<>>
    \/ reply.kind # "array"

\* line 381: all(field in segment for field in required_fields), for an object
HasRequiredFields(segment) == required_fields \subseteq segment.keys

\* lines 400-411: both timecodes are strings and match the pattern
TimesParse(segment) ==
    /\ segment.start.str /\ segment.end.str
    /\ TimeMatches(Strip(segment.start.s))
    /\ TimeMatches(Strip(segment.end.s))

\* lines 374-424: the candidate reaches the subtitle excerpt and the trim.
\* A number raises TypeError at line 381, a score that float() refuses with
\* OverflowError passes the handler of line 393, a start or end that is no
\* string raises AttributeError at line 400; all are caught and skipped.
PassesValidation(segment) ==
    /\ segment.json = "object"
    /\ HasRequiredFields(segment)
    /\ ScoresConvert(segment)
    /\ TimesParse(segment)

start_time(segment) == NormalizeTime(Strip(segment.start.s))
end_time(segment) == NormalizeTime(Strip(segment.end.s))
start_seconds(segment) == time_to_seconds(start_time(segment))
end_seconds(segment) == time_to_seconds(end_time(segment))

\* lines 461-473: the record appended for a candidate
Record(video_id, segment) ==
    [start_time |-> start_time(segment),
     end_time |-> end_time(segment),
     subtitle_file |->
        SegmentSubtitlePath(video_id, start_time(segment), end_time(segment)),
     video_file |-> OutputPath(video_id, start_time(segment), end_time(segment)),
     impact |-> NormalizedScore(segment.impact),
     uniqueness |-> NormalizedScore(segment.uniqueness),
     timeliness |-> NormalizedScore(segment.timeliness),
     entertainment |-> NormalizedScore(segment.entertainment),
     reason |-> Reason(segment.reason)]

-----------------------------------------------------------------------------
(* extract_segments, lines 325-506, as the steps of one run.  A step ends  *)
(* at each use of the file system or of an external command, where another *)
(* request may act.                                                        *)

\* the persisted transcript of the video, and a path where no file is
TranscriptFile == SubtitleOutput("title")
MissingFile == SubtitleOutput("missing")

Request(reply, url, sfile) == [reply |-> reply, url |-> url, sfile |-> sfile]

\* The requests a run is made with: every reply with a good URL and
\* transcript, and a one-candidate reply with a bad URL or a bad transcript.
Requests ==
    { Request(reply, UrlWatch, TranscriptFile) : reply \in Replies }
    \cup { Request(Array(<<SegGood>>), url, TranscriptFile) : url \in BadUrls }
    \cup { Request(Array(<<SegGood>>), UrlWatch, MissingFile) }

\* r2 is the request that overlaps r1: what it does to the files of r1 does
\* not depend on its candidates, so it brings one candidate, or a bad reply.
OverlapRequests ==
    { Request(Array(<<SegGood>>), UrlWatch, TranscriptFile),
      Request([kind |-> "invalid", items |-> <<>>], UrlWatch, TranscriptFile) }

RequestsOf(r) == IF r = "r1" THEN Requests ELSE OverlapRequests

video_id(r) == extract_video_id(video_url[r])
temp_path(r) == TempPath(video_id(r))
segments(r) == gpt_response[r].items
total_segments(r) == Len(segments(r))

Pending == [kind |-> "pending", value |-> <<>>]
ReturnNone == [kind |-> "None", value |-> <<>>]
ReturnList(l) == [kind |-> "list", value |-> l]
Raised == [kind |-> "raised", value |-> <<>>]

\* lines 489-495: None for no results, else the list
ReturnResults(l) == IF l = <<>> THEN ReturnNone ELSE ReturnList(l)

\* lines 456-457: the exit statuses the trim command can end with; ffmpeg
\* cannot read an input that is not there.
TrimExits(source_exists) == IF source_exists THEN {0, 1} ELSE {1}

\* no function is applied on its own
FnIdle == [pc |-> "idle"]

\* download_video_and_subtitles has not been called
AcqIdle ==
    [pc |-> "NotStarted", url |-> UrlWatch, video_title |-> <<>>, lang |-> 1,
     errors |-> <<>>, method |-> 0, transcript |-> <<>>, formatted |-> <<>>,
     calls |-> <<>>, ret |-> [kind |-> "pending", error |-> ""],
     written |-> <<>>]

Init ==
    /\ files \in {{TranscriptFile}, {TranscriptFile, TempPath("vid")}}
    /\ pc = [r \in Runs |-> "NotStarted"]
    /\ gpt_response = [r \in Runs |-> Array(<<>>)]
    /\ video_url = [r \in Runs |-> UrlWatch]
    /\ subtitle_file = [r \in Runs |-> TranscriptFile]
    /\ idx = [r \in Runs |-> 0]
    /\ results = [r \in Runs |-> <<>>]
    /\ accepted = [r \in Runs |-> <<>>]
    /\ ret = [r \in Runs |-> Pending]
    /\ log = [r \in Runs |-> <<>>]
    /\ opened = [r \in Runs |-> <<>>]
    /\ acq = AcqIdle
    /\ fn = FnIdle

\* lines 327-348 with the handlers 497-506 before temp_path is bound: the
\* reply is parsed, the video id extracted and the transcript read.
BeginOutcome(reply, url, sfile) ==
    IF reply.kind = "invalid" THEN "JSONDecodeError"
    ELSE IF InvalidSegmentsData(reply) THEN "InvalidSegmentsData"
    ELSE IF Falsy(extract_video_id(url)) THEN "InvalidVideoUrl"
    ELSE IF sfile \notin files THEN "TranscriptUnreadable"
    ELSE "CheckExists"

Begin(r) ==
    /\ pc[r] = "NotStarted"
    /\ \E req \in RequestsOf(r) :
        /\ gpt_response' = [gpt_response EXCEPT ![r] = req.reply]
        /\ video_url' = [video_url EXCEPT ![r] = req.url]
        /\ subtitle_file' = [subtitle_file EXCEPT ![r] = req.sfile]
        /\ IF BeginOutcome(req.reply, req.url, req.sfile) = "CheckExists"
           THEN /\ pc' = [pc EXCEPT ![r] = "CheckExists"]
                /\ ret' = ret
           ELSE /\ pc' = [pc EXCEPT ![r] = "Done"]
                /\ ret' = [ret EXCEPT ![r] = ReturnNone]
        /\ opened' = [opened EXCEPT ![r] =
              IF BeginOutcome(req.reply, req.url, req.sfile)
                    \in {"TranscriptUnreadable", "CheckExists"}
              THEN Append(@, [path |-> req.sfile, found |-> req.sfile \in files])
              ELSE @]
    /\ UNCHANGED <<files, idx, results, accepted, log, acq, fn>>

\* a variant of line 364 that downloads whatever is on disk
NeedsDownload_Always(r) == TRUE

\* line 364: the download is invoked when temp_path does not exist
NeedsDownload(r) == temp_path(r) \notin files

CheckExists(r) ==
    /\ pc[r] = "CheckExists"
    /\ LET seen == [op |-> "exists", found |-> temp_path(r) \in files]
       IN  IF NeedsDownload(r)
           THEN /\ pc' = [pc EXCEPT ![r] = "Downloading"]
                /\ log' = [log EXCEPT ![r] = @ \o <<seen, [op |-> "download"]>>]
           ELSE /\ pc' = [pc EXCEPT ![r] = "Cutting"]
                /\ log' = [log EXCEPT ![r] = Append(@, seen)]
    /\ UNCHANGED <<files, gpt_response, video_url, subtitle_file, idx, results,
                   accepted, ret, acq, fn, opened>>

\* lines 366-367: the download ends; it wrote temp_path, or it raised
DownloadSucceeds(r) ==
    /\ pc[r] = "Downloading"
    /\ files' = files \cup {temp_path(r)}
    /\ pc' = [pc EXCEPT ![r] = "Cutting"]
    /\ log' = [log EXCEPT ![r] = Append(@, [op |-> "downloaded"])]
    /\ UNCHANGED <<gpt_response, video_url, subtitle_file, idx, results,
                   accepted, ret, acq, fn, opened>>

\* a download that raises may leave the file behind (a failed post-processing)
DownloadFails(r) ==
    /\ pc[r] = "Downloading"
    /\ \E left \in BOOLEAN :
        files' = IF left THEN files \cup {temp_path(r)} ELSE files
    /\ pc' = [pc EXCEPT ![r] = "Handler"]
    /\ log' = [log EXCEPT ![r] = Append(@, [op |-> "download_failed"])]
    /\ UNCHANGED <<gpt_response, video_url, subtitle_file, idx, results,
                   accepted, ret, acq, fn, opened>>

\* lines 373-383, 398-411, 475-482: one candidate that is skipped before
\* anything is written
SkipSegment(r) ==
    /\ pc[r] = "Cutting"
    /\ idx[r] < total_segments(r)
    /\ ~PassesValidation(segments(r)[idx[r] + 1])
    /\ idx' = [idx EXCEPT ![r] = @ + 1]
    /\ UNCHANGED <<files, pc, gpt_response, video_url, subtitle_file, results,
                   accepted, ret, log, acq, fn, opened>>

\* a variant of line 457 that appends the record whatever the exit status
Survives_AnyExit(exit) == TRUE

\* line 457: a trim that exits 0 has its record appended
Survives(exit) == exit = 0

\* a variant of lines 429-459 where the excerpt of a failed trim is gone
CutFiles_ExcerptDroppedOnFailure(rec, exit) ==
    IF exit = 0 THEN {rec.subtitle_file, rec.video_file} ELSE {}

\* lines 429-459: the files on disk after the excerpt is written (line 432)
\* and the trim has run (line 456): the clip is there when the exit is 0
CutFiles(rec, exit) ==
    {rec.subtitle_file} \cup (IF exit = 0 THEN {rec.video_file} ELSE {})

\* lines 373-473: one candidate that passes validation: its subtitle excerpt
\* is written, the trim command runs, and on exit 0 the record is appended
CutSegment(r) ==
    /\ pc[r] = "Cutting"
    /\ idx[r] < total_segments(r)
    /\ LET segment == segments(r)[idx[r] + 1]
           rec == Record(video_id(r), segment)
           source == temp_path(r) \in files
       IN  /\ PassesValidation(segment)
           /\ \E exit \in TrimExits(source) :
                /\ files' = files \cup CutFiles(rec, exit)
                /\ log' = [log EXCEPT ![r] = @ \o
                      <<[op |-> "write", path |-> rec.subtitle_file],
                        [op |-> "trim", i |-> idx[r] + 1, source |-> source,
                         ss |-> start_seconds(segment),
                         t |-> end_seconds(segment) - start_seconds(segment),
                         exit |-> exit]>>]
                /\ results' = [results EXCEPT ![r] =
                      IF Survives(exit) THEN Append(@, rec) ELSE @]
                /\ accepted' = [accepted EXCEPT ![r] =
                      IF Survives(exit) THEN Append(@, idx[r] + 1) ELSE @]
    /\ idx' = [idx EXCEPT ![r] = @ + 1]
    /\ UNCHANGED <<pc, gpt_response, video_url, subtitle_file, ret, acq, fn, opened>>

\* a variant of lines 484-495 that returns without the cleanup
CleanupCheck_NoCleanup(r) ==
    /\ pc[r] = "Cutting"
    /\ idx[r] = total_segments(r)
    /\ pc' = [pc EXCEPT ![r] = "Done"]
    /\ ret' = [ret EXCEPT ![r] = ReturnResults(results[r])]
    /\ UNCHANGED <<files, gpt_response, video_url, subtitle_file, idx, results,
                   accepted, log, acq, fn, opened>>

\* line 485, after the last candidate: temp_path.exists()
CleanupCheck(r) ==
    /\ pc[r] = "Cutting"
    /\ idx[r] = total_segments(r)
    /\ IF temp_path(r) \in files
       THEN /\ pc' = [pc EXCEPT ![r] = "Unlink"]
            /\ ret' = ret
       ELSE /\ pc' = [pc EXCEPT ![r] = "Done"]
            /\ ret' = [ret EXCEPT ![r] = ReturnResults(results[r])]
    /\ UNCHANGED <<files, gpt_response, video_url, subtitle_file, idx, results,
                   accepted, log, acq, fn, opened>>

\* lines 487-495: temp_path.unlink(), then the return; unlink raises
\* FileNotFoundError when the file has gone since line 485
Unlink(r) ==
    /\ pc[r] = "Unlink"
    /\ IF temp_path(r) \in files
       THEN /\ files' = files \ {temp_path(r)}
            /\ log' = [log EXCEPT ![r] = Append(@, [op |-> "unlink"])]
            /\ pc' = [pc EXCEPT ![r] = "Done"]
            /\ ret' = [ret EXCEPT ![r] = ReturnResults(results[r])]
       ELSE /\ pc' = [pc EXCEPT ![r] = "Handler"]
            /\ UNCHANGED <<files, log, ret>>
    /\ UNCHANGED <<gpt_response, video_url, subtitle_file, idx, results, accepted, acq, fn, opened>>

\* lines 500-504 with temp_path bound: temp_path.exists()
HandlerCheck(r) ==
    /\ pc[r] = "Handler"
    /\ IF temp_path(r) \in files
       THEN /\ pc' = [pc EXCEPT ![r] = "HandlerUnlink"]
            /\ ret' = ret
       ELSE /\ pc' = [pc EXCEPT ![r] = "Done"]
            /\ ret' = [ret EXCEPT ![r] = ReturnNone]
    /\ UNCHANGED <<files, gpt_response, video_url, subtitle_file, idx, results,
                   accepted, log, acq, fn, opened>>

\* lines 505-506: temp_path.unlink() in the handler, then return None; an
\* exception raised here leaves extract_segments
HandlerUnlink(r) ==
    /\ pc[r] = "HandlerUnlink"
    /\ IF temp_path(r) \in files
       THEN /\ files' = files \ {temp_path(r)}
            /\ log' = [log EXCEPT ![r] = Append(@, [op |-> "unlink"])]
            /\ ret' = [ret EXCEPT ![r] = ReturnNone]
       ELSE /\ ret' = [ret EXCEPT ![r] = Raised]
            /\ UNCHANGED <<files, log>>
    /\ pc' = [pc EXCEPT ![r] = "Done"]
    /\ UNCHANGED <<gpt_response, video_url, subtitle_file, idx, results, accepted, acq, fn, opened>>

Next ==
    \E r \in Runs :
        \/ Begin(r)
        \/ CheckExists(r)
        \/ DownloadSucceeds(r)
        \/ DownloadFails(r)
        \/ SkipSegment(r)
        \/ CutSegment(r)
        \/ CleanupCheck(r)
        \/ Unlink(r)
        \/ HandlerCheck(r)
        \/ HandlerUnlink(r)

Spec == Init /\ [][Next]_vars

-----------------------------------------------------------------------------
(* The text helpers of the subtitle flow, lines 68-93.  A caption text is  *)
(* a tuple of characters; "ZW" stands for U+200B or U+FEFF.  A start       *)
(* offset is a number of tenths of a second.                               *)

\* lines 68-78: format_time of tenths/10 seconds: int(float(seconds))
\* truncates, then [HH:MM:SS]
\* a variant of line 73 that takes the minutes of the whole duration
format_time_WholeMinutes(tenths) ==
    LET total_seconds == tenths \div 10
        hours == total_seconds \div 3600
        minutes == total_seconds \div 60
        seconds == total_seconds % 60
    IN  <<"[">> \o TwoDigits(hours) \o <<":">> \o TwoDigits(minutes)
            \o <<":">> \o TwoDigits(seconds) \o <<"]">>

format_time(tenths) ==
    LET total_seconds == tenths \div 10
        hours == total_seconds \div 3600
        minutes == (total_seconds % 3600) \div 60
        seconds == total_seconds % 60
    IN  <<"[">> \o TwoDigits(hours) \o <<":">> \o TwoDigits(minutes)
            \o <<":">> \o TwoDigits(seconds) \o <<"]">>

\* line 84: re.sub(r'<[^>]+>', '', text)
RECURSIVE RemoveTags(_)
RemoveTags(s) ==
    IF s = <<>> THEN s
    ELSE IF s[1] = "<" /\ \E q \in 2..Len(s) : s[q] = ">"
         THEN LET q == CHOOSE k \in 2..Len(s) :
                           s[k] = ">" /\ \A j \in 2..(k - 1) : s[j] # ">"
              IN  IF q >= 3
                  THEN RemoveTags(SubSeq(s, q + 1, Len(s)))
                  ELSE <<s[1]>> \o RemoveTags(Tail(s))
         ELSE <<s[1]>> \o RemoveTags(Tail(s))

\* line 86: re.sub(r'\s+', ' ', text)
RECURSIVE CollapseSpaces(_)
CollapseSpaces(s) ==
    IF Len(s) < 2 THEN s
    ELSE IF s[1] = " " /\ s[2] = " " THEN CollapseSpaces(Tail(s))
    ELSE <<s[1]>> \o CollapseSpaces(Tail(s))

\* line 88: the zero-width characters are removed
RemoveZeroWidth(s) == SelectSeq(s, LAMBDA c : c # "ZW")

\* lines 80-93
clean_text(text) == Strip(RemoveZeroWidth(CollapseSpaces(RemoveTags(text))))

\* f"{time} {text}" and ' '.join(texts)
Line(time, text) == time \o <<" ">> \o text

RECURSIVE JoinWithSpace(_)
JoinWithSpace(texts) ==
    IF texts = <<>> THEN <<>>
    ELSE IF Len(texts) = 1 THEN texts[1]
    ELSE texts[1] \o <<" ">> \o JoinWithSpace(Tail(texts))

\* lines 171-192: the transcript of the transcript API, lines of one
\* timestamp merged.  st is <<formatted_subtitles, current_time, current_text>>;
\* an unset current_time is <<>>.
MergeFlush(st) ==
    IF st[2] # <<>> /\ st[3] # <<>>
    THEN Append(st[1], Line(st[2], JoinWithSpace(st[3])))
    ELSE st[1]

\* a variant of lines 179-180 that passes no item over
SkipsItem_Never(text) == FALSE

\* lines 179-180: if not text: continue
SkipsItem(text) == text = <<>>

RECURSIVE MergeLoop(_, _)
MergeLoop(items, st) ==
    IF items = <<>> THEN MergeFlush(st)
    ELSE LET time == format_time(items[1].start)
             text == clean_text(items[1].text)
         IN  IF SkipsItem(text) THEN MergeLoop(Tail(items), st)
             ELSE IF st[2] = time
                  THEN MergeLoop(Tail(items), <<st[1], st[2], Append(st[3], text)>>)
                  ELSE MergeLoop(Tail(items), <<MergeFlush(st), time, <<text>>>>)

FormatApiTranscript(transcript) == MergeLoop(transcript, <<<<>>, <<>>, <<>>>>)

\* lines 205-210: the transcript of yt-dlp: item.get('start', 0) and
\* item.get('text', ''), one line per item with text
RECURSIVE FormatCaptionTrack(_)
FormatCaptionTrack(track) ==
    IF track = <<>> THEN <<>>
    ELSE LET item == track[1]
             time == format_time(IF "start" \in item.keys THEN item.start ELSE 0)
             text == clean_text(IF "text" \in item.keys THEN item.text ELSE <<>>)
         IN  (IF text # <<>> THEN <<Line(time, text)>> ELSE <<>>)
                 \o FormatCaptionTrack(Tail(track))

-----------------------------------------------------------------------------
(* The capabilities download_video_and_subtitles calls, and what they may  *)
(* answer.                                                                 *)

\* lines 99, 126, 139
lang_priority == <<"ja", "ja-JP", "en">>
Langs == {"ja", "ja-JP", "en"}

CaptionItem(start, text) == [keys |-> {"start", "text"}, start |-> start, text |-> text]

ItemA == CaptionItem(12, <<"a">>)
\* in the same second as ItemA
ItemB == CaptionItem(17, <<"<", "i", ">", "b">>)
\* nothing is left of its text after cleaning
ItemBlank == CaptionItem(20, <<" ", "ZW">>)
\* in a later second, with whitespace to collapse
ItemC == CaptionItem(25, <<"c", " ", " ", "d">>)
\* what yt-dlp lists under a language: a format of the track, not a caption
ItemFormat == [keys |-> {"ext", "url"}, start |-> 0, text |-> <<>>]

\* YouTubeTranscriptApi.get_transcript(video_id, languages=[lang]), line 105
ApiAnswers ==
    { [kind |-> k, entries |-> <<>>] : k \in {"NoTranscriptFound", "Exception"} }
    \cup { [kind |-> "fetched", entries |-> t] :
              t \in SeqsUpTo({ItemA, ItemB, ItemBlank, ItemC}, MaxItems) }

\* a mapping of language codes to tracks, as a set of entries
CaptionMaps ==
    {{}} \cup { {[lang |-> l, track |-> t]} :
                  l \in Langs \cup {"fr"},
                  t \in {<<>>, <<ItemFormat>>, <<ItemA>>, <<ItemBlank>>,
                         <<ItemA, ItemB>>} }

HasLang(map, lang) == \E e \in map : e.lang = lang
TrackOf(map, lang) == (CHOOSE e \in map : e.lang = lang).track

\* ydl.extract_info(..., download=False), line 134
CaptionAnswers ==
    { [kind |-> "Exception", subtitles |-> {}, automatic_captions |-> {}] }
    \cup { [kind |-> "info", subtitles |-> s, automatic_captions |-> a] :
              s \in CaptionMaps, a \in CaptionMaps }

\* ydl.extract_info of get_video_info, lines 61-66: a title, a null title,
\* no title, or an exception
MetadataAnswers == {"title", "null", "absent", "Exception"}

VideoTitle == <<"M", "y", ":", "T">>
SyntheticTitle(id) == <<"video_", id>>

\* lines 52-66; a null title is returned as None
get_video_info(id, answer) ==
    CASE answer = "title" -> VideoTitle
      [] answer = "null" -> <<None>>
      [] OTHER -> SyntheticTitle(id)

\* line 217: re.sub(r'[<>:"/\\|?*]', '_', video_title)
SafeTitle(title) ==
    [k \in 1..Len(title) |->
        IF title[k] \in {"<", ">", ":", "\"", "/", "\\", "|", "?", "*"}
        THEN "_" ELSE title[k]]

\* lines 139-145: the track get_subtitles_from_yt_dlp returns, None as <<>>
RECURSIVE PickTrack(_, _)
PickTrack(info, k) ==
    IF k > Len(lang_priority) THEN [found |-> FALSE, track |-> <<>>]
    ELSE IF HasLang(info.subtitles, lang_priority[k])
         THEN [found |-> TRUE, track |-> TrackOf(info.subtitles, lang_priority[k])]
    ELSE IF HasLang(info.automatic_captions, lang_priority[k])
         THEN [found |-> TRUE,
               track |-> TrackOf(info.automatic_captions, lang_priority[k])]
    ELSE PickTrack(info, k + 1)

-----------------------------------------------------------------------------
(* download_video_and_subtitles, lines 150-231, as the steps of one call;  *)
(* a step ends at each call of a capability.                               *)

AcqError(e) == [kind |-> "error", error |-> e]
AcqOk == [kind |-> "ok", error |-> ""]

AcqUrls == {UrlWatch} \cup BadUrls

\* lines 153-159
AcqBegin ==
    /\ acq.pc = "NotStarted"
    /\ \E url \in AcqUrls :
        IF Falsy(extract_video_id(url))
        THEN acq' = [acq EXCEPT !.url = url, !.pc = "Done",
                                !.ret = AcqError("InvalidUrl")]
        ELSE acq' = [acq EXCEPT !.url = url, !.pc = "GetVideoInfo"]
    /\ UNCHANGED <<files, pc, gpt_response, video_url, subtitle_file, idx,
                   results, accepted, ret, log, fn, opened>>

\* lines 161-163
GetVideoInfo ==
    /\ acq.pc = "GetVideoInfo"
    /\ \E answer \in MetadataAnswers :
        acq' = [acq EXCEPT
                  !.video_title = get_video_info(extract_video_id(acq.url), answer),
                  !.calls = Append(@, [cap |-> "metadata", answer |-> answer]),
                  !.pc = "FetchTranscript"]
    /\ UNCHANGED <<files, pc, gpt_response, video_url, subtitle_file, idx,
                   results, accepted, ret, log, fn, opened>>

\* lines 212-214 and on: the formatted subtitles are saved, unless empty
AfterFormatting(a, formatted) ==
    IF formatted = <<>>
    THEN [a EXCEPT !.formatted = formatted, !.pc = "Done",
                   !.ret = AcqError("NoContent")]
    ELSE [a EXCEPT !.formatted = formatted, !.pc = "Save"]

\* line 107: the transcript of the first language that raises nothing is
\* returned, whatever it holds
Fetched(answer) == answer.kind = "fetched"

\* lines 103-118, 167-192: one turn of the loop over lang_priority in
\* get_subtitles_from_youtube_transcript_api, and what follows its return
FetchTranscript ==
    /\ acq.pc = "FetchTranscript"
    /\ \E answer \in ApiAnswers :
        LET called == [acq EXCEPT !.calls = Append(@,
                          [cap |-> "transcript", lang |-> lang_priority[acq.lang],
                           answer |-> answer])]
        IN  IF Fetched(answer)
            THEN IF answer.entries # <<>>
                 THEN acq' = AfterFormatting(
                                [called EXCEPT !.method = 1,
                                               !.transcript = answer.entries],
                                FormatApiTranscript(answer.entries))
                 ELSE acq' = [called EXCEPT !.pc = "ExtractCaptions"]
            ELSE IF acq.lang < Len(lang_priority)
                 THEN acq' = [called EXCEPT !.lang = @ + 1,
                                 !.errors = Append(@, lang_priority[acq.lang])]
                 ELSE acq' = [called EXCEPT !.pc = "ExtractCaptions",
                                 !.errors = Append(@, lang_priority[acq.lang])]
    /\ UNCHANGED <<files, pc, gpt_response, video_url, subtitle_file, idx,
                   results, accepted, ret, log, fn, opened>>

\* lines 120-148, 196-210: get_subtitles_from_yt_dlp and what follows it
ExtractCaptions ==
    /\ acq.pc = "ExtractCaptions"
    /\ \E answer \in CaptionAnswers :
        LET called == [acq EXCEPT !.calls = Append(@,
                          [cap |-> "captions", answer |-> answer])]
            picked == IF answer.kind = "info" THEN PickTrack(answer, 1)
                      ELSE [found |-> FALSE, track |-> <<>>]
        IN  IF picked.track = <<>>
            THEN acq' = [called EXCEPT !.pc = "Done",
                                       !.ret = AcqError("AcquisitionFailed")]
            ELSE acq' = AfterFormatting(
                            [called EXCEPT !.method = 2,
                                           !.transcript = picked.track],
                            FormatCaptionTrack(picked.track))
    /\ UNCHANGED <<files, pc, gpt_response, video_url, subtitle_file, idx,
                   results, accepted, ret, log, fn, opened>>

\* lines 216-231: the transcript is written; re.sub raises TypeError on a
\* title that is None
Save ==
    /\ acq.pc = "Save"
    /\ IF acq.video_title = <<None>>
       THEN /\ acq' = [acq EXCEPT !.pc = "Done", !.ret = AcqError("Exception")]
            /\ files' = files
       ELSE /\ acq' = [acq EXCEPT
                        !.pc = "Done", !.ret = AcqOk,
                        !.written = Append(@,
                            [path |-> SubtitleOutput(SafeTitle(acq.video_title)),
                             content |-> acq.formatted])]
            /\ files' = files \cup {SubtitleOutput(SafeTitle(acq.video_title))}
    /\ UNCHANGED <<pc, gpt_response, video_url, subtitle_file, idx, results,
                   accepted, ret, log, fn, opened>>

AcqInit ==
    /\ files = {}
    /\ pc = [r \in Runs |-> "NotStarted"]
    /\ gpt_response = [r \in Runs |-> Array(<<>>)]
    /\ video_url = [r \in Runs |-> UrlWatch]
    /\ subtitle_file = [r \in Runs |-> TranscriptFile]
    /\ idx = [r \in Runs |-> 0]
    /\ results = [r \in Runs |-> <<>>]
    /\ accepted = [r \in Runs |-> <<>>]
    /\ ret = [r \in Runs |-> Pending]
    /\ log = [r \in Runs |-> <<>>]
    /\ opened = [r \in Runs |-> <<>>]
    /\ acq = AcqIdle
    /\ fn = FnIdle

AcqNext ==
    \/ AcqBegin
    \/ GetVideoInfo
    \/ FetchTranscript
    \/ ExtractCaptions
    \/ Save

\* one call of download_video_and_subtitles, on an empty downloads directory
SpecAcq == AcqInit /\ [][AcqNext]_vars

\* the transcripts an earlier call may have left on disk
PriorTranscripts ==
    { [path |-> SubtitleOutput(SafeTitle(title)), content |-> content] :
        title \in {VideoTitle, SyntheticTitle("vid")},
        content \in {FormatApiTranscript(<<ItemA>>),
                     FormatApiTranscript(<<ItemA, ItemC>>)} }

\* an earlier call of download_video_and_subtitles has written a transcript
\* and returned its path
ReacquireInit ==
    /\ \E prior \in PriorTranscripts :
          /\ files = {prior.path}
          /\ acq = [AcqIdle EXCEPT !.written = <<prior>>]
    /\ pc = [r \in Runs |-> "NotStarted"]
    /\ gpt_response = [r \in Runs |-> Array(<<>>)]
    /\ video_url = [r \in Runs |-> UrlWatch]
    /\ subtitle_file = [r \in Runs |-> TranscriptFile]
    /\ idx = [r \in Runs |-> 0]
    /\ results = [r \in Runs |-> <<>>]
    /\ accepted = [r \in Runs |-> <<>>]
    /\ ret = [r \in Runs |-> Pending]
    /\ log = [r \in Runs |-> <<>>]
    /\ opened = [r \in Runs |-> <<>>]
    /\ fn = FnIdle

\* a call of download_video_and_subtitles that follows an earlier one
SpecReacquire == ReacquireInit /\ [][AcqNext]_vars

-----------------------------------------------------------------------------
(* What the claims speak of, read from the state of a run. *)

\* the positions of the log of run r that hold the operation op
LogPositions(r, op) == { k \in 1..Len(log[r]) : log[r][k].op = op }

\* the run bound temp_path (line 348): its first effect is the check of line 364
BoundTempPath(r) == log[r] # <<>>

\* the run is between its check of line 364 and its last use of temp_path
UsesTempPath(r) ==
    pc[r] \in {"Downloading", "Cutting", "Unlink", "Handler", "HandlerUnlink"}

\* the trim of candidate i ran and exited 0
TrimExitedZero(r, i) ==
    \E k \in LogPositions(r, "trim") : log[r][k].i = i /\ log[r][k].exit = 0

\* the candidates of run r whose trim exited 0, in array order
RECURSIVE SurvivorsUpTo(_, _)
SurvivorsUpTo(r, n) ==
    IF n = 0 THEN <<>>
    ELSE IF TrimExitedZero(r, n)
         THEN Append(SurvivorsUpTo(r, n - 1), n)
         ELSE SurvivorsUpTo(r, n - 1)

Survivors(r) == SurvivorsUpTo(r, total_segments(r))

RecordsOf(r, positions) ==
    [j \in 1..Len(positions) |-> Record(video_id(r), segments(r)[positions[j]])]

-----------------------------------------------------------------------------
\* C1 as claimed: once a run for a video id has returned, on whatever exit
\* path, temp_<video_id>.mp4 does not exist.
C1_TempGoneOnEveryExit ==
    \A r \in Runs :
        (pc[r] = "Done" /\ ~Falsy(video_id(r))) => temp_path(r) \notin files

\* C1 as amended: once a run that got as far as binding temp_path has
\* returned, temp_<video_id>.mp4 does not exist, unless an overlapping run
\* for the same video id is between its own existence check and its own
\* cleanup; a run that returned before that point had no effect on any file.
C1_TempGoneAfterCleanup ==
    \A r \in Runs :
        pc[r] = "Done" =>
            IF BoundTempPath(r)
            THEN temp_path(r) \in files =>
                    \E o \in Runs \ {r} :
                        UsesTempPath(o) /\ temp_path(o) = temp_path(r)
            ELSE log[r] = <<>> /\ ret[r] = ReturnNone

\* C1 witness: a run that found the file on disk, cut a clip and returned
\* its list, and the file is gone.
C1_Witness ==
    \E r \in Runs :
        /\ pc[r] = "Done" /\ ret[r].kind = "list"
        /\ log[r][1] = [op |-> "exists", found |-> TRUE]
        /\ LogPositions(r, "unlink") # {}
        /\ temp_path(r) \notin files

\* C2: every trim of a run is made while temp_<video_id>.mp4 exists, and the
\* file stays on disk for as long as a run is cutting from it.
C2_SourceKeptWhileCutting ==
    \A r \in Runs :
        /\ pc[r] = "Cutting" => temp_path(r) \in files
        /\ \A k \in LogPositions(r, "trim") : log[r][k].source

\* C3: when a run has ended, every candidate that passed validation and
\* whose trim exited 0 has its record in the returned list, wherever the
\* failing candidates sit in the array.
C3_GoodCandidatesReturned ==
    \A r \in Runs :
        pc[r] = "Done" =>
            \A i \in 1..total_segments(r) :
                (PassesValidation(segments(r)[i]) /\ TrimExitedZero(r, i)) =>
                    /\ ret[r].kind = "list"
                    /\ \E j \in 1..Len(ret[r].value) :
                          ret[r].value[j] = Record(video_id(r), segments(r)[i])

\* C4: every record of a run has start_seconds < end_seconds.
C4_PositiveDuration ==
    \A r \in Runs :
        \A j \in 1..Len(results[r]) :
            time_to_seconds(results[r][j].start_time)
                < time_to_seconds(results[r][j].end_time)

\* C5: a run whose reply is not valid JSON, or is anything but a non-empty
\* array, returns None and has invoked no download and no trim and has
\* written and deleted no file.
C5_BadReplyTouchesNothing ==
    \A r \in Runs :
        ( /\ pc[r] # "NotStarted"
          /\ \/ gpt_response[r].kind # "array"
             \/ Len(gpt_response[r].items) = 0 ) =>
            /\ pc[r] = "Done"
            /\ ret[r] = ReturnNone
            /\ log[r] = <<>>
            /\ results[r] = <<>>

\* C5 witness: a run with an empty array has returned None, and the shared
\* file that was on disk is still there.
C5_Witness ==
    \E r \in Runs :
        /\ pc[r] = "Done"
        /\ gpt_response[r] = Array(<<>>)
        /\ ret[r] = ReturnNone
        /\ TempPath("vid") \in files

\* C6: a run never returns the empty list: it returns None when no
\* candidate survived, and the list of the survivors' records otherwise.
C6_NoneOrSurvivors ==
    \A r \in Runs :
        pc[r] = "Done" =>
            /\ ret[r] # ReturnList(<<>>)
            /\ Survivors(r) = <<>> => ret[r] = ReturnNone
            /\ Survivors(r) # <<>> =>
                  ret[r] = ReturnList(RecordsOf(r, Survivors(r)))

\* C7: the records of a run are those of the candidates whose trim exited
\* 0, one record each, in array order, and a returned list is that list.
C7_ResultsAreSubsequence ==
    \A r \in Runs :
        /\ accepted[r] = SurvivorsUpTo(r, idx[r])
        /\ \A j \in 1..(Len(accepted[r]) - 1) : accepted[r][j] < accepted[r][j + 1]
        /\ results[r] = RecordsOf(r, accepted[r])
        /\ ret[r].kind = "list" => ret[r].value = results[r]

\* C7 witness: a returned list of one record, which came from the second
\* candidate of the array.
C7_Witness ==
    \E r \in Runs :
        /\ pc[r] = "Done" /\ ret[r].kind = "list"
        /\ accepted[r] = <<2>>
        /\ Len(ret[r].value) = 1

-----------------------------------------------------------------------------
\* The state of the run's state machine NotStarted -> Downloading ->
\* Cutting -> Done | Failed that the run stands in.
Phase(r) ==
    CASE pc[r] = "NotStarted" -> "NotStarted"
      [] pc[r] \in {"CheckExists", "Downloading"} -> "Downloading"
      [] pc[r] \in {"Cutting", "Unlink"} -> "Cutting"
      [] pc[r] \in {"Handler", "HandlerUnlink"} -> "Failed"
      [] pc[r] = "Done" -> IF ret[r].kind = "list" THEN "Done" ELSE "Failed"

PhaseSteps ==
    { <<"NotStarted", "Downloading">>, <<"NotStarted", "Failed">>,
      <<"Downloading", "Downloading">>, <<"Downloading", "Cutting">>,
      <<"Downloading", "Failed">>,
      <<"Cutting", "Cutting">>, <<"Cutting", "Done">>, <<"Cutting", "Failed">>,
      <<"NotStarted", "NotStarted">>, <<"Done", "Done">>, <<"Failed", "Failed">> }

DownloadPositions(r) ==
    LogPositions(r, "download") \cup LogPositions(r, "downloaded")
        \cup LogPositions(r, "download_failed")

C8_DownloadOnceBeforeCutting ==
    \A r \in Runs :
        /\ Cardinality(LogPositions(r, "download")) <= 1
        /\ Phase(r) \in {"Cutting", "Done"} => BoundTempPath(r)
        /\ BoundTempPath(r) =>
              /\ LogPositions(r, "exists") = {1}
              /\ (LogPositions(r, "download") # {}) = ~log[r][1].found
        /\ \A k \in LogPositions(r, "trim") \cup LogPositions(r, "write") :
              /\ \A d \in DownloadPositions(r) : d < k
              /\ LogPositions(r, "download") # {} =>
                    LogPositions(r, "downloaded") # {}
              /\ LogPositions(r, "download_failed") = {}

C8_PhaseOrder == \A r \in Runs : <<Phase(r), Phase(r)'>> \in PhaseSteps

\* C8: a run moves NotStarted -> Downloading -> Cutting -> Done | Failed;
\* it invokes the download at most once, exactly when the existence check
\* found temp_<video_id>.mp4 absent; every trim comes after the download
\* phase has finished, and no download comes after a trim.
C8_RunStateMachine == []C8_DownloadOnceBeforeCutting /\ [][C8_PhaseOrder]_vars

\* C8 witness: a run of two trims that found the file on disk and invoked
\* no download, while the other run downloaded once.
C8_Witness ==
    \E r \in Runs, o \in Runs :
        /\ log[r] # <<>> /\ log[r][1].found
        /\ Cardinality(LogPositions(r, "trim")) = 2
        /\ LogPositions(r, "download") = {}
        /\ Cardinality(LogPositions(o, "downloaded")) = 1

\* C9: a run whose download failed ends in failure (None) with no trim
\* invoked, no subtitle excerpt written and no record made; a run with a
\* failed trim goes on to the candidates after it.
C9_DownloadFailureAborts ==
    \A r \in Runs :
        /\ LogPositions(r, "download_failed") # {} =>
              /\ pc[r] \in {"Handler", "HandlerUnlink", "Done"}
              /\ pc[r] = "Done" => ret[r] = ReturnNone
              /\ LogPositions(r, "trim") = {} /\ LogPositions(r, "write") = {}
              /\ results[r] = <<>>
        /\ \A k \in LogPositions(r, "trim") :
              log[r][k].exit # 0 =>
                  /\ pc[r] \in {"Cutting", "Unlink", "Handler", "HandlerUnlink", "Done"}
                  /\ pc[r] = "Done" => idx[r] = total_segments(r)

-----------------------------------------------------------------------------
\* the calls of the capability cap that the acquisition has made
CallsOf(cap) == { k \in 1..Len(acq.calls) : acq.calls[k].cap = cap }

\* the transcript API was asked for the language and gave no entries
ApiYieldedNothing(lang) ==
    \E k \in CallsOf("transcript") :
        /\ acq.calls[k].lang = lang
        /\ ~(acq.calls[k].answer.kind = "fetched"
             /\ acq.calls[k].answer.entries # <<>>)

\* the caption extraction was asked and had no track in a language of the
\* priority list (an extraction that raised offered none)
CaptionsHadNoTrack ==
    \E k \in CallsOf("captions") :
        \A l \in Langs :
            /\ ~HasLang(acq.calls[k].answer.subtitles, l)
            /\ ~HasLang(acq.calls[k].answer.automatic_captions, l)

\* C10: download_video_and_subtitles returns an error for a valid video id
\* only if the transcript API yielded nothing for ja, ja-JP and en and the
\* caption extraction had no authored and no automatic track for them; it
\* never fails while the second strategy is untried.
C10_FailsOnlyWhenExhausted ==
    ( /\ acq.pc = "Done"
      /\ acq.ret.kind = "error"
      /\ ~Falsy(extract_video_id(acq.url)) ) =>
        /\ \A l \in Langs : ApiYieldedNothing(l)
        /\ CaptionsHadNoTrack

\* the answers of the transcript API in the call at hand, in the order asked
TranscriptCalls == SelectSeq(acq.calls, LAMBDA c : c.cap = "transcript")

\* the transcript-API strategy of the call at hand has returned
ApiStrategyOver == acq.pc \in {"ExtractCaptions", "Save", "Done"} /\ acq.calls # <<>>

\* C11: the transcript API is asked for ja, ja-JP and en in this order; a
\* language that raised or gave zero entries is followed by the next
\* language, no language is asked after one that gave entries, and the
\* transcript the strategy returns is that of the first language with entries.
C11_FirstLanguageWithEntries ==
    LET asked == TranscriptCalls
        YieldsEntries(c) == c.answer.kind = "fetched" /\ c.answer.entries # <<>>
    IN  /\ Len(asked) <= Len(lang_priority)
        /\ \A k \in 1..Len(asked) : asked[k].lang = lang_priority[k]
        /\ \A k \in 1..(Len(asked) - 1) : ~YieldsEntries(asked[k])
        /\ ApiStrategyOver =>
              /\ Len(asked) >= 1
              /\ ~YieldsEntries(asked[Len(asked)]) => Len(asked) = Len(lang_priority)
              /\ YieldsEntries(asked[Len(asked)]) =>
                    /\ acq.method = 1
                    /\ acq.transcript = asked[Len(asked)].answer.entries

\* what the metadata capability answered in the call at hand
MetadataAnswer == (CHOOSE k \in CallsOf("metadata") : TRUE)

\* C12: whatever the metadata capability answered, a call with a valid URL
\* went on to ask for subtitles, and a call whose acquisition yielded content
\* has written the transcript and returned success, under the synthetic title
\* video_<id> when the capability gave no title.
C12_MetadataNeverAborts ==
    ( /\ acq.pc = "Done"
      /\ ~Falsy(extract_video_id(acq.url)) ) =>
        /\ CallsOf("metadata") # {}
        /\ TranscriptCalls # <<>>
        /\ acq.formatted # <<>> =>
              LET id == extract_video_id(acq.url)
                  title == IF acq.calls[MetadataAnswer].answer = "title"
                           THEN VideoTitle ELSE SyntheticTitle(id)
              IN  /\ acq.ret = AcqOk
                  /\ acq.video_title = title
                  /\ SubtitleOutput(SafeTitle(title)) \in files

\* the timestamp a caption item is filed under, and its cleaned text
ItemTime(item) == format_time(IF "start" \in item.keys THEN item.start ELSE 0)
ItemText(item) == clean_text(IF "text" \in item.keys THEN item.text ELSE <<>>)

\* the cleaned texts, in input order, of the items of the transcript filed
\* under the timestamp
TextsAt(transcript, time) ==
    LET at == SelectSeq(transcript,
                  LAMBDA item : ItemTime(item) = time /\ ItemText(item) # <<>>)
    IN  [k \in 1..Len(at) |-> ItemText(at[k])]

\* the timestamp at the head of a transcript line
LineTime(line) == SubSeq(line, 1, Len(format_time(0)))

\* C13: in a transcript that was written, from either source, the items
\* with text that share a timestamp make exactly one line, their texts
\* joined by single spaces in input order; no timestamp heads two lines.
C13_OneLinePerTimestamp ==
    ( acq.pc = "Done" /\ acq.ret = AcqOk ) =>
        /\ \A k \in 1..Len(acq.transcript) :
              LET time == ItemTime(acq.transcript[k])
              IN  ItemText(acq.transcript[k]) # <<>> =>
                    \E p \in 1..Len(acq.formatted) :
                        /\ acq.formatted[p] =
                              Line(time, JoinWithSpace(TextsAt(acq.transcript, time)))
                        /\ \A q \in 1..Len(acq.formatted) :
                              LineTime(acq.formatted[q]) = time => q = p
        /\ \A p, q \in 1..Len(acq.formatted) :
              LineTime(acq.formatted[p]) = LineTime(acq.formatted[q]) => p = q

\* the items of the transcript that keep some text after cleaning
WithText(transcript) == SelectSeq(transcript, LAMBDA item : ItemText(item) # <<>>)

\* C14: an item whose cleaned text is empty leaves no trace: the transcript
\* produced from the items is the transcript produced from the items with
\* text alone, and each of its lines carries text after the timestamp.
C14_BlankItemsLeaveNoTrace ==
    acq.method # 0 =>
        /\ acq.formatted =
              IF acq.method = 1
              THEN FormatApiTranscript(WithText(acq.transcript))
              ELSE FormatCaptionTrack(WithText(acq.transcript))
        /\ \A p \in 1..Len(acq.formatted) :
              Len(acq.formatted[p]) > Len(LineTime(acq.formatted[p])) + 1

\* a fetched transcript with a blank item of another second between two
\* items of one second was formatted: the two items share the one line
C14_Witness ==
    /\ acq.pc = "Done"
    /\ acq.method = 1
    /\ Len(acq.transcript) = 3
    /\ ItemText(acq.transcript[2]) = <<>>
    /\ ItemText(acq.transcript[1]) # <<>>
    /\ ItemText(acq.transcript[3]) # <<>>
    /\ ItemTime(acq.transcript[1]) = ItemTime(acq.transcript[3])
    /\ ItemTime(acq.transcript[2]) # ItemTime(acq.transcript[1])
    /\ Len(acq.formatted) = 1

-----------------------------------------------------------------------------
(* The time codec on its own: format_time (lines 68-78) applied to a whole *)
(* number of seconds, and the timecode step of the validator (lines        *)
(* 398-423) applied to what it wrote, brackets removed.                    *)

\* everything but fn
requestVars == <<files, pc, gpt_response, video_url, subtitle_file, idx,
                 results, accepted, ret, log, acq, opened>>

\* no request is under way
NoRequest ==
    /\ files = {}
    /\ pc = [r \in Runs |-> "NotStarted"]
    /\ gpt_response = [r \in Runs |-> Array(<<>>)]
    /\ video_url = [r \in Runs |-> UrlWatch]
    /\ subtitle_file = [r \in Runs |-> TranscriptFile]
    /\ idx = [r \in Runs |-> 0]
    /\ results = [r \in Runs |-> <<>>]
    /\ accepted = [r \in Runs |-> <<>>]
    /\ ret = [r \in Runs |-> Pending]
    /\ log = [r \in Runs |-> <<>>]
    /\ opened = [r \in Runs |-> <<>>]
    /\ acq = AcqIdle

CodecFields == {0, 1, 9, 10, 59}
CodecHours == {0, 1, 9, 10, 99, MaxHour}
CodecSeconds ==
    { h * 3600 + m * 60 + sec : h \in CodecHours, m \in CodecFields,
                                sec \in CodecFields }

CodecInit ==
    /\ NoRequest
    /\ fn \in { [pc |-> "seconds", s |-> s, text |-> <<>>, parsed |-> 0] :
                  s \in CodecSeconds }

\* lines 68-78
FormatSeconds ==
    /\ fn.pc = "seconds"
    /\ fn' = [fn EXCEPT !.text = format_time(fn.s * 10), !.pc = "formatted"]
    /\ UNCHANGED requestVars

\* "[HH:MM:SS]" without its brackets
StripBrackets(text) == SubSeq(text, 2, Len(text) - 1)

\* lines 400-423 on one timecode: strip, match, re-render, time_to_seconds
ParseTimecode ==
    /\ fn.pc = "formatted"
    /\ LET time == Strip(StripBrackets(fn.text))
       IN  IF TimeMatches(time)
           THEN fn' = [fn EXCEPT !.parsed = time_to_seconds(NormalizeTime(time)),
                                 !.pc = "parsed"]
           ELSE fn' = [fn EXCEPT !.pc = "rejected"]
    /\ UNCHANGED requestVars

CodecNext ==
    \/ FormatSeconds
    \/ ParseTimecode

SpecCodec == CodecInit /\ [][CodecNext]_vars

\* C15, as stated: every whole number of seconds, formatted and parsed
\* back, is parsed to itself.
C15_RoundTrip ==
    fn.pc \in {"parsed", "rejected"} => fn.pc = "parsed" /\ fn.parsed = fn.s

\* C15, amended: every whole number of seconds below 100 hours, formatted
\* and parsed back, is parsed to itself.
C15_RoundTripBelow100Hours ==
    ( fn.pc \in {"parsed", "rejected"} /\ fn.s \div 3600 < 100 ) =>
        fn.pc = "parsed" /\ fn.parsed = fn.s

\* 99:59:59 was formatted and parsed back
C15_Witness ==
    /\ fn.pc = "parsed"
    /\ fn.s \div 3600 = 99
    /\ fn.s % 3600 = 3599
    /\ fn.parsed = fn.s

-----------------------------------------------------------------------------
(* filter_subtitles_by_time, lines 294-323. *)

\* line 310: re.match(r'\[(\d{2}):(\d{2}):(\d{2})\](.*)', line) found a match
LineMatches(line) ==
    /\ Len(line) >= 10
    /\ line[1] = "[" /\ line[4] = ":" /\ line[7] = ":" /\ line[10] = "]"
    /\ AllDigits(SubSeq(line, 2, 3))
    /\ AllDigits(SubSeq(line, 5, 6))
    /\ AllDigits(SubSeq(line, 8, 9))

\* lines 312-313: time_to_seconds(f"{h}:{m}:{s}") of the groups
subtitle_seconds(line) == time_to_seconds(SubSeq(line, 2, 9))

\* line 315: start_seconds <= subtitle_seconds <= end_seconds
InRange(first, t, last) == first <= t /\ t <= last

\* lines 294-323, for timecodes that time_to_seconds converts
filter_subtitles_by_time(subtitles, start, end) ==
    SelectSeq(subtitles,
        LAMBDA line :
            /\ Strip(line) # <<>>
            /\ LineMatches(line)
            /\ InRange(time_to_seconds(start), subtitle_seconds(line),
                       time_to_seconds(end)))

-----------------------------------------------------------------------------
(* The steps extract_segments takes for one candidate, lines 374-473, on   *)
(* their own: the candidate is validated, its subtitle excerpt is written, *)
(* the trim command runs, the record is appended.                          *)

\* the timecodes a candidate may bring
TimeTexts ==
    { <<"1", ":", "0", "2", ":", "0", "3">>,
      <<"0", "1", ":", "0", "2", ":", "0", "3">>,
      <<"0", "1", "0", "2", "0", "3">>,
      <<"1", "0", "2", "0", "3">>,
      <<"1", ":", "0", "2", "0", "3">>,
      <<"0", "1", "0", "2", ":", "0", "3">>,
      <<" ", "0", "1", ":", "0", "2", ":", "0", "3", " ">>,
      <<"1", ":", "2", ":", "0", "3">>,
      <<"0", "0", "1", ":", "0", "2", ":", "0", "3">>,
      <<"0", "1", ":", "0", "2">>,
      <<>>,
      <<"0", "1", ".", "0", "2", ".", "0", "3">>,
      <<"0", "1", ":", "0", "2", ":", "0", "3", "x">>,
      <<"9", "9", ":", "9", "9", ":", "9", "9">> }

T010205 == <<"0", "1", ":", "0", "2", ":", "0", "5">>

\* the score values a candidate may bring
ScoreValues ==
    { Number(t) : t \in {-30, 0, 9, 10, 14, 15, 25, 35, 50, 74, 96, 100, 101, 150} }
    \cup {NumericString(70), NumericString(150), WordString, Null, HugeInteger}

\* the reasons a candidate may bring: 9 and 10 characters, bare and padded
ReasonValues ==
    { ReasonText(<<"1", "2", "3", "4", "5", "6", "7", "8", "9">>),
      ReasonText(<<" ", "1", "2", "3", "4", "5", "6", "7", "8", "9", " ">>),
      ReasonText(<<"1", "2", "3", "4", "5", "6", "7", "8", "9", "0">>),
      ReasonText(<<" ", " ", "1", "2", "3", "4", "5", "6", "7", "8", "9", "0", " ">>),
      ReasonText(<<"1", "2", "3", "4", " ", "6", "7", "8", "9">>),
      ReasonText(<<"1", "2", "3", "4", "5", " ", "7", "8", "9", "0", " ">>),
      ReasonText(<<>>),
      ReasonNumber(123456789), ReasonNumber(1234567890), ReasonNull,
      LongReason }

\* the windows a candidate may ask for, as start and end
Windows ==
    { <<T000005, T000010>>,
      <<T000010, T000005>>,
      <<<<"0", "0", ":", "0", "0", ":", "0", "4">>, <<"0", "0", ":", "0", "0", ":", "1", "1">>>>,
      <<<<"0", "0", ":", "0", "0", ":", "0", "6">>, <<"0", "0", ":", "0", "0", ":", "0", "9">>>>,
      <<<<"0", "0", ":", "0", "0", ":", "0", "7">>, <<"0", "0", ":", "0", "0", ":", "0", "7">>>>,
      <<<<"9", "9", ":", "5", "9", ":", "5", "9">>, <<"9", "9", ":", "6", "0", ":", "0", "0">>>>,
      <<<<"9", "9", ":", "5", "9", ":", "5", "9">>, <<"9", "9", ":", "5", "9", ":", "5", "9">>>> }

ValidatorCandidates ==
    Candidates
    \cup { [SegGood EXCEPT !.start = Text(t), !.end = Text(T010205)] : t \in TimeTexts }
    \cup { [SegGood EXCEPT !.end = Text(t)] : t \in TimeTexts }
    \cup { [SegGood EXCEPT !.start = Text(w[1]), !.end = Text(w[2])] : w \in Windows }
    \cup { [SegGood EXCEPT ![f] = v] : f \in score_fields, v \in ScoreValues }
    \cup { [SegGood EXCEPT !.reason = r] : r \in ReasonValues }

\* the transcripts on disk: what the normalizer writes for a video of a few
\* seconds, and for a stream that runs past 100 hours
ShortTranscript ==
    FormatApiTranscript(<<CaptionItem(40, <<"a">>), CaptionItem(50, <<"b">>),
                          CaptionItem(75, <<"c">>), CaptionItem(100, <<"d">>),
                          CaptionItem(110, <<"e">>)>>)
LongTranscript ==
    FormatApiTranscript(<<CaptionItem(50, <<"b">>),
                          CaptionItem(3599990, <<"y">>),
                          CaptionItem(3600000, <<"z">>)>>)

ValidateInit ==
    /\ NoRequest
    /\ fn \in { [pc |-> "candidate", segment |-> c, all_subtitles |-> t,
                 excerpt |-> <<>>, results |-> <<>>] :
                  c \in ValidatorCandidates, t \in {ShortTranscript, LongTranscript} }

\* lines 374-424
ValidateCandidate ==
    /\ fn.pc = "candidate"
    /\ fn' = [fn EXCEPT !.pc = IF PassesValidation(fn.segment)
                               THEN "validated" ELSE "skipped"]
    /\ UNCHANGED requestVars

\* lines 426-433
WriteExcerpt ==
    /\ fn.pc = "validated"
    /\ fn' = [fn EXCEPT
                !.excerpt = filter_subtitles_by_time(fn.all_subtitles,
                                start_time(fn.segment), end_time(fn.segment)),
                !.pc = "excerpt written"]
    /\ files' = files \cup {SegmentSubtitlePath("vid", start_time(fn.segment),
                                                end_time(fn.segment))}
    /\ UNCHANGED <<pc, gpt_response, video_url, subtitle_file, idx, results,
                   accepted, ret, log, acq, opened>>

\* lines 436-473
TrimCandidate ==
    /\ fn.pc = "excerpt written"
    /\ \E exit \in TrimExits(TRUE) :
        /\ fn' = IF Survives(exit)
                 THEN [fn EXCEPT !.results = <<Record("vid", fn.segment)>>,
                                 !.pc = "emitted"]
                 ELSE [fn EXCEPT !.pc = "dropped"]
        /\ files' = files \cup (IF exit = 0
                                THEN {OutputPath("vid", start_time(fn.segment),
                                                 end_time(fn.segment))}
                                ELSE {})
    /\ UNCHANGED <<pc, gpt_response, video_url, subtitle_file, idx, results,
                   accepted, ret, log, acq, opened>>

ValidateNext ==
    \/ ValidateCandidate
    \/ WriteExcerpt
    \/ TrimCandidate

SpecValidate == ValidateInit /\ [][ValidateNext]_vars

-----------------------------------------------------------------------------
(* What the claims say of one candidate. *)

\* H:MM:SS or HH:MM:SS
ColonSeparated(s) ==
    /\ Len(s) \in {7, 8}
    /\ LET h == Len(s) - 6
       IN  /\ AllDigits(SubSeq(s, 1, h))
           /\ s[h + 1] = ":"
           /\ AllDigits(SubSeq(s, h + 2, h + 3))
           /\ s[h + 4] = ":"
           /\ AllDigits(SubSeq(s, h + 5, h + 6))

\* HMMSS or HHMMSS
Concatenated(s) == Len(s) \in {5, 6} /\ AllDigits(s)

\* s without its last two characters and the colon before them, if any
DropField(s) ==
    LET rest == SubSeq(s, 1, Len(s) - 2)
    IN  IF rest # <<>> /\ rest[Len(rest)] = ":"
        THEN SubSeq(rest, 1, Len(rest) - 1) ELSE rest

\* hour, minute and second of a timecode, read from its end
FieldsOf(s) ==
    <<ToInt(DropField(DropField(s))),
      ToInt(SubSeq(DropField(s), Len(DropField(s)) - 1, Len(DropField(s)))),
      ToInt(SubSeq(s, Len(s) - 1, Len(s)))>>

\* t is HH:MM:SS and holds the values of s
Canonical(t, s) ==
    /\ Len(t) = 8
    /\ ColonSeparated(t)
    /\ FieldsOf(t) = FieldsOf(s)

\* the candidate at hand fails at nothing but, possibly, its timecodes
OnlyTimesInQuestion ==
    /\ fn.pc # "candidate"
    /\ fn.segment.json = "object"
    /\ HasRequiredFields(fn.segment)
    /\ ScoresConvert(fn.segment)
    /\ fn.segment.start.str /\ fn.segment.end.str

\* C16: a candidate passes the timecode step exactly if its start and its
\* end, trimmed, are each colon-separated or concatenated digits, a form
\* with one of the two colons being neither; the timecodes of a record are
\* HH:MM:SS with the hour, minute and second of the candidate's.
C16_TimecodeForms ==
    OnlyTimesInQuestion =>
        LET start == Strip(fn.segment.start.s)
            end == Strip(fn.segment.end.s)
            WellFormed(s) == ColonSeparated(s) \/ Concatenated(s)
        IN  /\ fn.pc # "skipped" <=> (WellFormed(start) /\ WellFormed(end))
            /\ fn.pc = "emitted" =>
                  /\ Canonical(fn.results[1].start_time, start)
                  /\ Canonical(fn.results[1].end_time, end)

\* the candidate at hand fails at nothing but, possibly, its scores
OnlyScoresInQuestion ==
    /\ fn.pc # "candidate"
    /\ fn.segment.json = "object"
    /\ HasRequiredFields(fn.segment)
    /\ TimesParse(fn.segment)

\* C17: no score keeps a candidate from the trim, and each score of a
\* record is an integer from 1 to 10: 5 for a value that is no number, 10
\* for a number above 10, 1 for a number below 1, and for a number in
\* between an integer no further than a half from it.
C17_ScoresNormalized ==
    OnlyScoresInQuestion =>
        /\ fn.pc # "skipped"
        /\ fn.pc = "emitted" =>
              \A field \in score_fields :
                  LET value == fn.segment[field]
                      score == fn.results[1][field]
                  IN  /\ score \in 1..10
                      /\ value.json \in {"word string", "null"} => score = 5
                      /\ value.json = "huge integer" => score = 10
                      /\ value.json \in {"number", "numeric string"} =>
                            /\ value.tenths > 100 => score = 10
                            /\ value.tenths < 10 => score = 1
                            /\ (10 <= value.tenths /\ value.tenths <= 100) =>
                                  /\ 10 * score - value.tenths <= 5
                                  /\ value.tenths - 10 * score <= 5

\* the seconds a transcript line stands at: its timestamp, from the bracket
\* that opens the line to the first that closes
LineSeconds(line) ==
    LET close == CHOOSE k \in 1..Len(line) :
                     line[k] = "]" /\ \A j \in 1..(k - 1) : line[j] # "]"
    IN  time_to_seconds(SubSeq(line, 2, close - 1))

\* C18: the excerpt written for a candidate is the transcript's lines that
\* stand at a second from start_seconds to end_seconds, both included, in
\* the order of the transcript, and nothing else.
C18_ExcerptIsWindow ==
    fn.pc \in {"excerpt written", "emitted", "dropped"} =>
        fn.excerpt =
            SelectSeq(fn.all_subtitles,
                LAMBDA line :
                    /\ start_seconds(fn.segment) <= LineSeconds(line)
                    /\ LineSeconds(line) <= end_seconds(fn.segment))

\* t is s without the spaces around it
IsTrimOf(t, s) ==
    /\ t # <<>> => t[1] # " " /\ t[Len(t)] # " "
    /\ \E i \in 1..(Len(s) + 1) :
          /\ Len(t) <= Len(s) + 1 - i
          /\ t = SubSeq(s, i, i + Len(t) - 1)
          /\ \A k \in 1..Len(s) : (k < i \/ k >= i + Len(t)) => s[k] = " "

\* the trimmed reason of the candidate at hand
TrimmedReason ==
    LET text == str(fn.segment.reason)
    IN  CHOOSE t \in { SubSeq(text, i, j) : i \in 1..(Len(text) + 1),
                                            j \in 0..Len(text) } :
            IsTrimOf(t, text)

\* C19: the reason of a record is the candidate's reason without the
\* whitespace around it if that is 10 characters or more, and the fallback
\* sentence if it is 9 or fewer.
C19_ReasonBoundary ==
    fn.pc = "emitted" =>
        /\ Len(TrimmedReason) >= 10 => fn.results[1].reason = TrimmedReason
        /\ Len(TrimmedReason) <= 9 => fn.results[1].reason = FallbackReason

\* a record was made of a candidate whose reason is 10 characters with
\* spaces around them: its reason is the 10 characters
C19_Witness ==
    /\ fn.pc = "emitted"
    /\ fn.segment.reason.json = "string"
    /\ Len(fn.segment.reason.s) > 10
    /\ Len(TrimmedReason) = 10
    /\ fn.results[1].reason = TrimmedReason
    /\ fn.results[1].reason # fn.segment.reason.s

-----------------------------------------------------------------------------
\* C20: a transcript file keeps the contents it was created with: whatever
\* is written to its path later, by a call for the same video or another,
\* leaves the contents as they were.
C20_TranscriptImmutable ==
    \A i, j \in 1..Len(acq.written) :
        acq.written[i].path = acq.written[j].path =>
            acq.written[i].content = acq.written[j].content

-----------------------------------------------------------------------------
(* Requests with a URL that holds no video id: calls of                    *)
(* download_video_and_subtitles that end at line 159, beside the calls of  *)
(* extract_segments.                                                       *)

\* lines 153-159 for a URL of BadUrls: the whole call
AcqBadUrl ==
    /\ AcqBegin
    /\ acq'.url \in BadUrls

InputErrorsNext ==
    \/ Next
    \/ AcqBadUrl

SpecInputErrors == Init /\ [][InputErrorsNext]_vars

\* C21: for a URL from which no video id can be extracted,
\* download_video_and_subtitles returns an error having called no
\* capability and written no file, and extract_segments returns None having
\* opened no transcript, checked, downloaded, trimmed or written nothing.
C21_InputErrorsTouchNothing ==
    /\ (acq.pc # "NotStarted" /\ acq.url \in BadUrls) =>
          /\ acq.pc = "Done"
          /\ acq.ret.kind = "error"
          /\ acq.calls = <<>>
          /\ acq.written = <<>>
    /\ \A r \in Runs :
          (pc[r] # "NotStarted" /\ video_url[r] \in BadUrls) =>
              /\ pc[r] = "Done"
              /\ ret[r] = ReturnNone
              /\ opened[r] = <<>>
              /\ log[r] = <<>>
              /\ results[r] = <<>>

\* both functions have returned for a URL of youtu.be with an empty path,
\* the run with a well-formed reply and a transcript that is on disk
C21_Witness ==
    /\ acq.pc = "Done"
    /\ acq.url = UrlShortEmpty
    /\ \E r \in Runs :
          /\ pc[r] = "Done"
          /\ video_url[r] = UrlShortEmpty
          /\ ~InvalidSegmentsData(gpt_response[r])
          /\ gpt_response[r].kind # "invalid"
          /\ subtitle_file[r] \in files
          /\ ret[r] = ReturnNone

-----------------------------------------------------------------------------
\* C22: any two distinct records of the list a run returns have different
\* clip file paths and different subtitle excerpt paths.
C22_DisjointOutputs ==
    \A r \in Runs :
        ret[r].kind = "list" =>
            \A i, j \in 1..Len(ret[r].value) :
                i # j =>
                    /\ ret[r].value[i].video_file # ret[r].value[j].video_file
                    /\ ret[r].value[i].subtitle_file
                          # ret[r].value[j].subtitle_file

-----------------------------------------------------------------------------
\* the record of the candidate that the trim at position k of the log of
\* run r was run for
TrimRecord(r, k) == Record(video_id(r), segments(r)[log[r][k].i])

\* the excerpt of the trim at position k was written just before it
ExcerptWrittenBefore(r, k) ==
    /\ k > 1
    /\ log[r][k - 1] = [op |-> "write", path |-> TrimRecord(r, k).subtitle_file]

\* C23: the excerpt of a candidate is written before its trim is run and is
\* on disk ever after; a candidate whose trim exits non-zero gives no record
\* and leaves its excerpt; the excerpt and the clip of every record were
\* written by the run, excerpt then trim with exit 0, before the record was
\* appended, and the returned list is made of these records.
C23_ExcerptOutlivesTrim ==
    \A r \in Runs :
        /\ \A k \in LogPositions(r, "trim") :
              /\ ExcerptWrittenBefore(r, k)
              /\ TrimRecord(r, k).subtitle_file \in files
              /\ log[r][k].exit # 0 =>
                    \A n \in 1..Len(accepted[r]) : accepted[r][n] # log[r][k].i
        /\ Len(results[r]) = Len(accepted[r])
        /\ \A n \in 1..Len(results[r]) :
              \E k \in LogPositions(r, "trim") :
                  /\ log[r][k].i = accepted[r][n]
                  /\ log[r][k].exit = 0
                  /\ ExcerptWrittenBefore(r, k)
                  /\ results[r][n] = TrimRecord(r, k)
                  /\ results[r][n].subtitle_file \in files
                  /\ results[r][n].video_file \in files
        /\ ret[r].kind = "list" => ret[r].value = results[r]

\* a run has returned one record of two candidates: the trim of the other
\* exited non-zero, its excerpt is on disk, its clip is not, and no record
\* names it
C23_Witness ==
    \E r \in Runs :
        /\ pc[r] = "Done"
        /\ ret[r].kind = "list"
        /\ Len(ret[r].value) = 1
        /\ \E k \in LogPositions(r, "trim") :
              /\ log[r][k].exit # 0
              /\ log[r][k].source
              /\ TrimRecord(r, k).subtitle_file \in files
              /\ TrimRecord(r, k).video_file \notin files
              /\ TrimRecord(r, k).subtitle_file # ret[r].value[1].subtitle_file

====
